---- MODULE Spec2Model ----
(***************************************************************************)
(* Aiotrade: the dynamic parameter store shared by the Telegram bot        *)
(* controller (editor) and the freqtrade strategy plugin (consumer), the   *)
(* editing conversation of the bot, and the reload notifier.               *)
(*                                                                         *)
(* Numbers with a fractional part are kept in hundredths (-0.10 is -10).   *)
(* A JSON value is a record [t |-> type, v |-> number]; a JSON object is a *)
(* function from a set of keys to values.                                  *)
(***************************************************************************)
EXTENDS Integers, Sequences, FiniteSets, TLC

VARIABLES
    clock,      \* the filesystem's timestamp tick
    fs,         \* path -> file (existence, content, modification time)
    strategy,   \* the consumer: AiotradeStrategy instance (params, attributes, _last_params_mtime)
    since,      \* what happened to the target file last: "saved", "written" or "polled"
    state,      \* the editor's FSM state of the administrator's chat (FSMContext)
    flow,       \* the running handler tasks of the editor (one record per task slot)
    out,        \* the last reply the editor sent to the user
    app         \* the editor's process: main()'s position, environment and objects

vars == <<clock, fs, strategy, since, state, flow, out, app>>

----------------------------------------------------------------------------
(* Bounds of the model *)

\* number of distinct modification-time ticks of the filesystem clock
MaxClock == 2

----------------------------------------------------------------------------
(* JSON values *)

IntV(n) == [t |-> "int", v |-> n]
FloatV(h) == [t |-> "float", v |-> h]
BoolV(b) == [t |-> "bool", v |-> IF b THEN 1 ELSE 0]
\* an attribute the strategy class does not set itself (the framework's value)
Unset == [t |-> "unset", v |-> 0]

Keys ==
    {"rsi_period", "rsi_buy", "rsi_sell", "stoploss", "trailing_stop",
     "trailing_stop_positive", "trailing_stop_positive_offset"}

IntFields == {"rsi_period", "rsi_buy", "rsi_sell"}
FloatFields == {"stoploss", "trailing_stop_positive", "trailing_stop_positive_offset"}
BoolFields == {"trailing_stop"}

EmptyObj == [k \in {} |-> IntV(0)]

\* dict.update(other) / dict[k] = v
Update(d, other) ==
    [k \in (DOMAIN d) \cup (DOMAIN other) |->
        IF k \in DOMAIN other THEN other[k] ELSE d[k]]

\* a mutant of SetItem: the assignment is lost
SetItem_lost(d, key, val) == d

SetItem(d, key, val) == Update(d, [k \in {key} |-> val])

----------------------------------------------------------------------------
(* StrategyParams: the consumer's pydantic model *)

\* Field(default=...)
FieldDefault(k) ==
    CASE k = "rsi_period" -> IntV(14)
      [] k = "rsi_buy" -> IntV(30)
      [] k = "rsi_sell" -> IntV(70)
      [] k = "stoploss" -> FloatV(-10)
      [] k = "trailing_stop" -> BoolV(TRUE)
      [] k = "trailing_stop_positive" -> FloatV(1)
      [] k = "trailing_stop_positive_offset" -> FloatV(2)

\* the annotation's type: whether pydantic can turn the JSON value into the
\* field's type (JSON ints, floats and booleans only; an integral JSON float
\* is an int, a JSON int is a float)
TypeOk(k, val) ==
    CASE k \in IntFields -> val.t = "int" \/ (val.t = "float" /\ val.v % 100 = 0)
      [] k \in FloatFields -> val.t \in {"int", "float"}
      [] k \in BoolFields -> val.t = "bool" \/ (val.t = "int" /\ val.v \in {0, 1})

Coerce(k, val) ==
    CASE k \in IntFields -> IF val.t = "float" THEN IntV(val.v \div 100) ELSE val
      [] k \in FloatFields -> IF val.t = "int" THEN FloatV(val.v * 100) ELSE val
      [] k \in BoolFields -> [t |-> "bool", v |-> val.v]

\* Field(ge=, le=, lt=) on the coerced value
RangeOk(k, val) ==
    CASE k = "rsi_period" -> val.v >= 2 /\ val.v <= 100
      [] k = "rsi_buy" -> val.v >= 1 /\ val.v <= 99
      [] k = "rsi_sell" -> val.v >= 1 /\ val.v <= 99
      [] k = "stoploss" -> val.v < 0 /\ val.v >= -100
      [] k = "trailing_stop" -> TRUE
      [] k = "trailing_stop_positive" -> val.v >= 0
      [] k = "trailing_stop_positive_offset" -> val.v >= 0

FieldOk(k, val) == TypeOk(k, val) /\ RangeOk(k, Coerce(k, val))

\* a mutant of StrategyParams: the stoploss and rsi_buy ranges are not
\* checked
StrategyParams_unchecked(raw) ==
    [ok |-> \A k \in (DOMAIN raw) \cap Keys :
                TypeOk(k, raw[k]) /\ (k \in {"rsi_buy", "stoploss"} \/ RangeOk(k, Coerce(k, raw[k]))),
     val |-> [k \in Keys |-> IF k \in DOMAIN raw THEN Coerce(k, raw[k]) ELSE FieldDefault(k)]]

\* StrategyParams(**raw_data) followed by .dict(): ok is FALSE when pydantic
\* raises ValidationError; unknown keys are ignored, missing keys take the
\* default
StrategyParams(raw) ==
    [ok |-> \A k \in (DOMAIN raw) \cap Keys : FieldOk(k, raw[k]),
     val |-> [k \in Keys |-> IF k \in DOMAIN raw THEN Coerce(k, raw[k]) ELSE FieldDefault(k)]]

----------------------------------------------------------------------------
(* The editor's validators. A text is a sequence of characters. *)

Digits == {"0", "1", "2", "3", "4", "5", "6", "7", "8", "9"}

DigitVal(c) ==
    CASE c = "0" -> 0 [] c = "1" -> 1 [] c = "2" -> 2 [] c = "3" -> 3 [] c = "4" -> 4
      [] c = "5" -> 5 [] c = "6" -> 6 [] c = "7" -> 7 [] c = "8" -> 8 [] c = "9" -> 9

AllDigits(s) == \A i \in 1..Len(s) : s[i] \in Digits

RECURSIVE Number(_)
Number(s) == IF s = <<>> THEN 0 ELSE 10 * Number(SubSeq(s, 1, Len(s) - 1)) + DigitVal(s[Len(s)])

Signed(s) == s # <<>> /\ s[1] \in {"-", "+"}
Magnitude(s) == IF Signed(s) THEN Tail(s) ELSE s
Sign(s) == IF s # <<>> /\ s[1] = "-" THEN -1 ELSE 1

\* int(text): ok is FALSE when Python raises ValueError
int(text) ==
    LET m == Magnitude(text) IN
    IF m # <<>> /\ AllDigits(m)
    THEN [ok |-> TRUE, v |-> Sign(text) * Number(m)]
    ELSE [ok |-> FALSE, v |-> 0]

DotAt(s) == IF \E i \in 1..Len(s) : s[i] = "." THEN CHOOSE i \in 1..Len(s) : s[i] = "." ELSE 0

\* float(text), in hundredths, for decimal literals of at most two decimals
float(text) ==
    LET m == Magnitude(text)
        d == DotAt(m)
        whole == IF d = 0 THEN m ELSE SubSeq(m, 1, d - 1)
        frac == IF d = 0 THEN <<>> ELSE SubSeq(m, d + 1, Len(m))
        cents == IF Len(frac) = 1 THEN 10 * Number(frac) ELSE Number(frac)
    IN  IF AllDigits(whole) /\ AllDigits(frac) /\ Len(whole) + Len(frac) > 0 /\ Len(frac) <= 2
        THEN [ok |-> TRUE, v |-> Sign(text) * (100 * Number(whole) + cents)]
        ELSE [ok |-> FALSE, v |-> 0]

\* a mutant of validate_rsi: the range check is dropped
validate_rsi_norange(text) ==
    LET value == int(text) IN
    [ok |-> value.ok, val |-> IntV(value.v)]

\* validate_rsi: ok is FALSE when it raises ValueError
validate_rsi(text) ==
    LET value == int(text) IN
    [ok |-> value.ok /\ 1 <= value.v /\ value.v <= 99, val |-> IntV(value.v)]

validate_stoploss(text) ==
    LET value == float(text) IN
    [ok |-> value.ok /\ -100 <= value.v /\ value.v <= 0, val |-> FloatV(value.v)]

----------------------------------------------------------------------------
(* The shared filesystem *)

\* services.PARAMS_FILE, which is also user_data_dir / "strategy_params.json"
PARAMS_FILE == "strategy_params.json"

\* a mutant of temp_file: save_params writes the target in place
temp_file_in_place == PARAMS_FILE

\* PARAMS_FILE.with_suffix(".tmp")
temp_file == "strategy_params.tmp"

Paths == {PARAMS_FILE, temp_file}

\* file contents: a complete JSON object, text that is no JSON, JSON that is
\* no object (a list, a number, null), or the prefix of a JSON text that an
\* unfinished write leaves
Obj(o) == [kind |-> "object", obj |-> o]
Garbage == [kind |-> "garbage", obj |-> EmptyObj]
NonObject == [kind |-> "nonobject", obj |-> EmptyObj]
Partial == [kind |-> "partial", obj |-> EmptyObj]
NoData == [kind |-> "none", obj |-> EmptyObj]

File(data, mtime) == [exists |-> TRUE, data |-> data, mtime |-> mtime]
NoFile == [exists |-> FALSE, data |-> NoData, mtime |-> 0]

\* contents that something other than the editor puts at PARAMS_FILE (the
\* deployment, an operator's hand edit)
FullContent ==
    Obj([k \in Keys |->
        CASE k = "rsi_period" -> IntV(20)
          [] k = "rsi_buy" -> IntV(25)
          [] k = "rsi_sell" -> IntV(75)
          [] k = "stoploss" -> FloatV(-20)
          [] k = "trailing_stop" -> BoolV(FALSE)
          [] k = "trailing_stop_positive" -> FloatV(3)
          [] k = "trailing_stop_positive_offset" -> FloatV(4)])
BadRsiContent == Obj([k \in {"rsi_buy", "rsi_sell"} |-> IF k = "rsi_buy" THEN IntV(150) ELSE IntV(60)])

ExternalContents == {FullContent, BadRsiContent, Garbage, NonObject}

----------------------------------------------------------------------------
(* The consumer: AiotradeStrategy *)

\* the class attribute params, and the instance after __init__
ClassParams ==
    [k \in {"rsi_period", "rsi_buy", "rsi_sell", "stoploss", "trailing_stop"} |-> FieldDefault(k)]

InitStrategy ==
    [params |-> ClassParams,
     stoploss |-> Unset,
     trailing_stop |-> Unset,
     trailing_stop_positive |-> Unset,
     trailing_stop_positive_offset |-> Unset,
     _last_params_mtime |-> 0,
     raised |-> FALSE]

\* lines 73-81: whether _load_dynamic_params goes on to open the file
HasChanged(f, last_mtime) == f.exists /\ f.mtime # last_mtime

\* lines 83-86: the exception the try body raises on this file, "none" if none
LoadError(f) ==
    CASE f.data.kind \in {"garbage", "partial"} -> "JSONDecodeError"
      [] f.data.kind = "nonobject" -> "TypeError"
      [] f.data.kind = "object" /\ ~StrategyParams(f.data.obj).ok -> "ValidationError"
      [] OTHER -> "none"

\* a mutant of Caught: only ValidationError is handled
Caught_validation_only(exc) == exc = "ValidationError"

\* lines 97-100: except ValidationError, except Exception
Caught(exc) == exc \in {"ValidationError", "JSONDecodeError", "TypeError"}

\* lines 86-94: the instance after a successful load
Loaded(s, f) ==
    LET validated == StrategyParams(f.data.obj).val IN
    [s EXCEPT !.params = Update(s.params, validated),
              !.stoploss = validated["stoploss"],
              !.trailing_stop = validated["trailing_stop"],
              !.trailing_stop_positive = validated["trailing_stop_positive"],
              !.trailing_stop_positive_offset = validated["trailing_stop_positive_offset"],
              !._last_params_mtime = f.mtime]

\* a mutant of NotFound: the missing file is not recorded
NotFound_keeps(s) == s

\* lines 73-77: the file is missing (the warning is logged when
\* _last_params_mtime is not -1 yet)
NotFound(s) == [s EXCEPT !._last_params_mtime = -1]

\* _load_dynamic_params: the instance after one call
_load_dynamic_params(s, f) ==
    IF ~f.exists
    THEN NotFound(s)
    ELSE IF ~HasChanged(f, s._last_params_mtime)
    THEN s
    ELSE IF LoadError(f) = "none"
    THEN Loaded(s, f)
    ELSE [s EXCEPT !.raised = ~Caught(LoadError(f))]

\* bot_loop_start: one iteration of the strategy loop
bot_loop_start ==
    /\ strategy' = _load_dynamic_params(strategy, fs[PARAMS_FILE])
    /\ since' = "polled"
    /\ UNCHANGED <<app, clock, fs, state, flow, out>>

----------------------------------------------------------------------------
(* The environment of the shared file *)

\* the filesystem's timestamp advances
Tick ==
    /\ clock < MaxClock
    /\ clock' = clock + 1
    /\ UNCHANGED <<app, fs, strategy, since, state, flow, out>>

\* something other than the editor replaces the file
ExternalWrite ==
    /\ \E c \in ExternalContents :
          fs' = [fs EXCEPT ![PARAMS_FILE] = File(c, clock)]
    /\ since' = "written"
    /\ UNCHANGED <<app, clock, strategy, state, flow, out>>

\* the file is removed
Remove ==
    /\ fs[PARAMS_FILE].exists
    /\ fs' = [fs EXCEPT ![PARAMS_FILE] = NoFile]
    /\ since' = "written"
    /\ UNCHANGED <<app, clock, strategy, state, flow, out>>

----------------------------------------------------------------------------
(* The editor: handlers of the bot controller *)

\* texts the administrator sends
Texts ==
    {<<"4", "0">>, <<"1", "5", "0">>, <<"a", "b", "c">>,
     <<"-", "0", ".", "1", "5">>, <<"0", ".", "5">>, <<"0">>, <<"-", "1">>}

\* SettingsStates, and None for a chat with no state
NoState == "None"
waiting_for_rsi == "waiting_for_rsi"
waiting_for_stoploss == "waiting_for_stoploss"

\* the task slots of the event loop
Tasks == {"t1"}

UpdateHandlers == {"process_rsi_input", "process_stoploss_input"}

\* the state filter of the two message handlers
StateFilter(h) == IF h = "process_rsi_input" THEN waiting_for_rsi ELSE waiting_for_stoploss

\* the arguments process_rsi_input and process_stoploss_input pass on
param_name(h) == IF h = "process_rsi_input" THEN "rsi_buy" ELSE "stoploss"
validator(h, text) == IF h = "process_rsi_input" THEN validate_rsi(text) ELSE validate_stoploss(text)
error_msg(h) == IF h = "process_rsi_input" THEN "error_rsi" ELSE "error_stoploss"

\* the four GET queries of _get_status_text, in the order of its gather call
Endpoints == <<"show_config", "balance", "daily", "status">>
EndpointSet == {Endpoints[n] : n \in 1..Len(Endpoints)}

IdleFlow ==
    [pc |-> "idle", handler |-> "none", new_value |-> IntV(0), params |-> EmptyObj,
     i |-> 0, response |-> "none", reload_ok |-> FALSE,
     results |-> [e \in EndpointSet |-> "none"], order |-> <<>>, fd |-> "none"]

\* load_params: what it returns for the file it finds
load_params(f) ==
    IF ~f.exists THEN Obj(EmptyObj)
    ELSE IF f.data.kind \in {"garbage", "partial"} THEN Obj(EmptyObj)
    ELSE f.data

\* os.replace(src, dst)
Replace(fsys, src, dst) ==
    IF src = dst THEN fsys ELSE [fsys EXCEPT ![dst] = fsys[src], ![src] = NoFile]

\* a mutant of Unlink: the temporary file is left behind
Unlink_keeps(fsys, path) == fsys

\* temp_file.unlink() when temp_file.exists()
Unlink(fsys, path) == [fsys EXCEPT ![path] = NoFile]

\* retries: int = 3
retries == 3

\* what one POST gets back
Responses == {"200_json", "200_malformed", "non_200", "network_error"}

\* _post_request: True only when the status is 200 and the body parses as a
\* JSON object (response.json() and data.get raise otherwise, and the
\* exception is caught)
_post_request(r) == r = "200_json"

\* a mutant of ReloadReply: the confirmation is sent whatever reload_config
\* returned
ReloadReply_always_confirmed(reload_ok) == "confirmed"

\* lines 195-202: the reply after reload_config
ReloadReply(reload_ok) == IF reload_ok THEN "confirmed" ELSE "saved_not_applied"

\* a message in a waiting state reaches process_rsi_input or
\* process_stoploss_input; _update_param runs the validator at once
process_input(f, h, text) ==
    /\ flow[f].pc = "idle"
    /\ state = StateFilter(h)
    /\ LET r == validator(h, text) IN
       IF r.ok
       THEN /\ flow' = [flow EXCEPT ![f] =
                    [IdleFlow EXCEPT !.pc = "load", !.handler = h, !.new_value = r.val]]
            /\ UNCHANGED out
       ELSE /\ out' = error_msg(h)
            /\ UNCHANGED flow
    /\ UNCHANGED <<app, clock, fs, strategy, since, state>>

\* lines 186-187: load_params in a thread, then params[param_name] = new_value
update_load(f) ==
    /\ flow[f].pc = "load"
    /\ LET loaded == load_params(fs[PARAMS_FILE]) IN
       IF loaded.kind = "object"
       THEN /\ flow' = [flow EXCEPT ![f].pc = "open",
                                    ![f].params = SetItem(loaded.obj, param_name(flow[f].handler), flow[f].new_value)]
            /\ UNCHANGED out
       ELSE /\ flow' = [flow EXCEPT ![f] = IdleFlow]
            /\ out' = "raised"
    /\ UNCHANGED <<app, clock, fs, strategy, since, state>>

\* where the file behind an open descriptor is after another task renamed
\* temp_file onto PARAMS_FILE (to = PARAMS_FILE) or unlinked it (to =
\* "unlinked"): a file that was at PARAMS_FILE and is renamed over has no
\* name left
Moved(fd, to) ==
    IF fd = temp_file THEN to
    ELSE IF fd = PARAMS_FILE /\ to = PARAMS_FILE THEN "unlinked" ELSE fd

\* the tasks after f's rename or unlink: the descriptors of the others
Others(f, to) ==
    [g \in DOMAIN flow |-> IF g = f THEN flow[g] ELSE [flow[g] EXCEPT !.fd = Moved(flow[g].fd, to)]]

\* what a write from offset 0 leaves in a file: the text written when the
\* file was empty; when another writer's text is there, the text written
\* or a mix of the two
Written(old, new) == IF old.kind = "partial" THEN {new} ELSE {new, Garbage}

\* save_params lines 36-38: mkdir and open(temp_file, "w"): the file at the
\* path is created, or truncated when it is there
save_open(f) ==
    /\ flow[f].pc = "open"
    /\ \/ /\ fs' = [fs EXCEPT ![temp_file] = File(Partial, clock)]
          /\ flow' = [flow EXCEPT ![f].pc = "dump", ![f].fd = temp_file]
       \/ /\ flow' = [flow EXCEPT ![f].pc = "except"]
          /\ UNCHANGED fs
    /\ UNCHANGED <<app, clock, strategy, since, state, out>>

\* save_params line 39: json.dump and the close of the with block
save_dump(f) ==
    /\ flow[f].pc = "dump"
    /\ \/ /\ IF flow[f].fd \in Paths
             THEN \E c \in Written(fs[flow[f].fd].data, Obj(flow[f].params)) :
                     fs' = [fs EXCEPT ![flow[f].fd] = File(c, clock)]
             ELSE fs' = fs
          /\ flow' = [flow EXCEPT ![f].pc = "replace", ![f].fd = "none"]
       \/ /\ flow' = [flow EXCEPT ![f].pc = "except", ![f].fd = "none"]
          /\ UNCHANGED fs
    /\ UNCHANGED <<app, clock, strategy, since, state, out>>

\* save_params lines 41-43: os.replace, return True (params is not used
\* after save_params returns: the task's record forgets it)
save_replace(f) ==
    /\ flow[f].pc = "replace"
    /\ \/ /\ fs[temp_file].exists
          /\ fs' = Replace(fs, temp_file, PARAMS_FILE)
          /\ since' = "saved"
          /\ flow' = [Others(f, PARAMS_FILE) EXCEPT
                          ![f].pc = "post", ![f].params = EmptyObj]
       \/ /\ flow' = [flow EXCEPT ![f].pc = "except"]
          /\ UNCHANGED <<fs, since>>
    /\ UNCHANGED <<app, clock, strategy, state, out>>

\* save_params lines 45-49 and _update_param lines 190-192
save_except(f) ==
    /\ flow[f].pc = "except"
    /\ fs' = IF fs[temp_file].exists THEN Unlink(fs, temp_file) ELSE fs
    /\ out' = "write_error"
    /\ flow' = [Others(f, "unlinked") EXCEPT ![f] = IdleFlow]
    /\ UNCHANGED <<app, clock, strategy, since, state>>

\* reload_config: one turn of the loop, a POST and its response
reload_post(f) ==
    /\ flow[f].pc = "post"
    /\ \E r \in Responses :
          IF _post_request(r)
          THEN flow' = [flow EXCEPT ![f].pc = "answer", ![f].response = r, ![f].reload_ok = TRUE]
          ELSE IF flow[f].i < retries - 1
          THEN flow' = [flow EXCEPT ![f].pc = "sleep", ![f].response = r]
          ELSE flow' = [flow EXCEPT ![f].pc = "answer", ![f].response = r, ![f].reload_ok = FALSE]
    /\ UNCHANGED <<app, clock, fs, strategy, since, state, out>>

\* reload_config: asyncio.sleep(1), then the next turn
reload_sleep(f) ==
    /\ flow[f].pc = "sleep"
    /\ flow' = [flow EXCEPT ![f].pc = "post", ![f].i = flow[f].i + 1]
    /\ UNCHANGED <<app, clock, fs, strategy, since, state, out>>

\* the reply after reload_config, in _update_param and in cmd_reload
answer(f) ==
    /\ flow[f].pc = "answer"
    /\ IF flow[f].handler = "cmd_reload"
       THEN /\ out' = IF flow[f].reload_ok THEN "reload_ok" ELSE "reload_failed"
            /\ flow' = [flow EXCEPT ![f] = IdleFlow]
       ELSE /\ out' = ReloadReply(flow[f].reload_ok)
            /\ flow' = [flow EXCEPT ![f].pc = "clear", ![f].response = "none"]
    /\ UNCHANGED <<app, clock, fs, strategy, since, state>>

\* _update_param line 208: state.clear()
update_clear(f) ==
    /\ flow[f].pc = "clear"
    /\ state' = NoState
    /\ flow' = [flow EXCEPT ![f] = IdleFlow]
    /\ UNCHANGED <<app, clock, fs, strategy, since, out>>

\* /start and /menu
cmd_start ==
    /\ out' = "main_menu"
    /\ UNCHANGED <<app, clock, fs, strategy, since, state, flow>>

\* /reload
cmd_reload(f) ==
    /\ flow[f].pc = "idle"
    /\ out' = "reloading"
    /\ flow' = [flow EXCEPT ![f] = [IdleFlow EXCEPT !.pc = "post", !.handler = "cmd_reload"]]
    /\ UNCHANGED <<app, clock, fs, strategy, since, state>>

\* the unavailable sentinel of _get_request
None == "None"

\* what one GET gets back
GetOutcomes == {"200_json", "401", "non_200", "network_error", "200_malformed"}

\* the well-formed JSON bodies an endpoint answers with: the expected one, a
\* show_config object without "state", and a JSON number
Bodies(e) ==
    CASE e = "show_config" -> {"config_running", "config_nostate", "number"}
      [] e = "balance" -> {"balance", "number"}
      [] e = "daily" -> {"daily", "number"}
      [] e = "status" -> {"trades_list", "number"}

\* lines 40-51: the exception raised inside the try block, "none" if none
GetError(outcome) ==
    CASE outcome = "network_error" -> "ClientError"
      [] outcome = "200_malformed" -> "JSONDecodeError"
      [] OTHER -> "none"

\* a mutant of GetCaught: only aiohttp.ClientError is handled
GetCaught_client_only(exc) == exc = "ClientError"

\* lines 52-57: except aiohttp.ClientError, except Exception
GetCaught(exc) == exc \in {"ClientError", "JSONDecodeError"}

\* _get_request: what it returns, "raised" if an exception leaves it
_get_request(outcome, body) ==
    IF GetError(outcome) # "none"
    THEN IF GetCaught(GetError(outcome)) THEN None ELSE "raised"
    ELSE IF outcome = "200_json" THEN body ELSE None

\* the texts of _get_status_text (the timestamp left out)
Text(kind, config, balance, daily, trades) ==
    [kind |-> kind, config |-> config, balance |-> balance, daily |-> daily, trades |-> trades]

\* _get_status_text lines 31-77, on the four results of gather;
\* kind "raised" when an exception leaves it ("state" not in / "total" in /
\* "data" in a number is a TypeError outside any try)
_get_status_text(config_data, balance_data, daily_data, trades_data) ==
    IF config_data = None THEN Text("connection_error", "-", "-", "-", "-")
    ELSE IF config_data = "number" THEN Text("raised", "-", "-", "-", "-")
    ELSE IF config_data = "config_nostate" THEN Text("data_error", "-", "-", "-", "-")
    ELSE IF balance_data = "number" \/ daily_data = "number" THEN Text("raised", "-", "-", "-", "-")
    ELSE Text("status", config_data,
              IF balance_data = None THEN "N/A" ELSE balance_data,
              IF daily_data = None THEN "N/A" ELSE daily_data,
              IF trades_data = "trades_list" THEN "len" ELSE "0")

\* the kinds of text _get_status_text can end with
StatusKinds == {"status", "connection_error", "data_error", "raised"}

\* a query's entry in results: issued or not yet, or its result
Done(r) == r \notin {"none", "scheduled", "sent"}

\* a mutant of gather: the results come in the order of completion
gather_as_completed(results, order) == [n \in 1..Len(Endpoints) |-> results[order[n]]]

\* asyncio.gather: the results in the order of its arguments
gather(results, order) == [n \in 1..Len(Endpoints) |-> results[Endpoints[n]]]

\* cb_status, _get_status_text lines 22-29: gather creates the four tasks
status_gather(f) ==
    /\ flow[f].pc = "idle"
    /\ flow' = [flow EXCEPT ![f] =
            [IdleFlow EXCEPT !.pc = "gather", !.handler = "cb_status",
                             !.results = [e \in EndpointSet |-> "scheduled"]]]
    /\ UNCHANGED <<app, clock, fs, strategy, since, state, out>>

\* the first step of a query's task, in the order the tasks were created:
\* _get_request up to session.get
get_issue(f, n) ==
    /\ flow[f].pc = "gather"
    /\ flow[f].results[Endpoints[n]] = "scheduled"
    /\ \A m \in 1..(n - 1) : flow[f].results[Endpoints[m]] # "scheduled"
    /\ flow' = [flow EXCEPT ![f].results[Endpoints[n]] = "sent"]
    /\ UNCHANGED <<app, clock, fs, strategy, since, state, out>>

\* a query completes: the event loop runs the ready first steps of all
\* four tasks before it handles any response
get_response(f, e, outcome, body) ==
    /\ flow[f].pc = "gather"
    /\ flow[f].results[e] = "sent"
    /\ \A d \in EndpointSet : flow[f].results[d] # "scheduled"
    /\ flow' = [flow EXCEPT ![f].results[e] = _get_request(outcome, body),
                             ![f].order = Append(flow[f].order, e)]
    /\ UNCHANGED <<app, clock, fs, strategy, since, state, out>>

\* gather returns when all four are done; lines 31-77 make the text and
\* cb_status shows it
status_format(f) ==
    /\ flow[f].pc = "gather"
    /\ \A e \in EndpointSet : Done(flow[f].results[e])
    /\ LET r == gather(flow[f].results, flow[f].order) IN
       out' = _get_status_text(r[1], r[2], r[3], r[4])
    /\ flow' = [flow EXCEPT ![f] = IdleFlow]
    /\ UNCHANGED <<app, clock, fs, strategy, since, state>>

cb_main_menu ==
    /\ state' = NoState
    /\ out' = "main_menu"
    /\ UNCHANGED <<app, clock, fs, strategy, since, flow>>

\* a mutant of cb_status: the handler clears the FSM state
cb_status_clears ==
    /\ out' \in StatusKinds
    /\ state' = NoState
    /\ UNCHANGED <<app, clock, fs, strategy, since, flow>>

\* cb_status in one step: the kind of the text it shows
cb_status ==
    /\ out' \in StatusKinds
    /\ UNCHANGED <<app, clock, fs, strategy, since, state, flow>>

cb_start ==
    /\ out' \in {"start_failed"} \cup StatusKinds
    /\ UNCHANGED <<app, clock, fs, strategy, since, state, flow>>

cb_stop ==
    /\ out' \in {"stop_failed"} \cup StatusKinds
    /\ UNCHANGED <<app, clock, fs, strategy, since, state, flow>>

cb_settings ==
    /\ out' = IF load_params(fs[PARAMS_FILE]).kind = "object" THEN "settings" ELSE "raised"
    /\ UNCHANGED <<app, clock, fs, strategy, since, state, flow>>

start_set_rsi ==
    /\ state' = waiting_for_rsi
    /\ out' = "prompt_rsi"
    /\ UNCHANGED <<app, clock, fs, strategy, since, flow>>

start_set_stoploss ==
    /\ state' = waiting_for_stoploss
    /\ out' = "prompt_stoploss"
    /\ UNCHANGED <<app, clock, fs, strategy, since, flow>>

----------------------------------------------------------------------------
(* The editor's process: main() *)

\* the environment values main() reads (lines 39-42), and the
\* administrator's id, which it does not read
EnvNames ==
    {"TELEGRAM_BOT_TOKEN", "FREQTRADE_API_URL", "FREQTRADE_API_USERNAME",
     "FREQTRADE_API_PASSWORD", "ADMIN_ID"}

\* the senders of an event: the administrator, somebody else, nobody
\* (event.from_user is None)
AdminId == "admin"
NoSender == "no_sender"
Senders == {AdminId, "other", NoSender}

\* the process with env set in its environment, before main() runs
StartApp(env) ==
    [pc |-> "start", env |-> env, exit_code |-> 0, bot |-> FALSE, dp |-> FALSE,
     client |-> FALSE, sender |-> "none", ran |-> "none"]

\* the process polling, started with every value set
PollingApp ==
    [StartApp(EnvNames) EXCEPT !.pc = "polling", !.bot = TRUE, !.dp = TRUE, !.client = TRUE]

\* lines 39-50: os.getenv and the two checks; sys.exit(1) when the token,
\* the URL or the password is missing (the user name has a default)
main_getenv ==
    /\ app.pc = "start"
    /\ IF "TELEGRAM_BOT_TOKEN" \notin app.env
       THEN app' = [app EXCEPT !.pc = "exited", !.exit_code = 1]
       ELSE IF "FREQTRADE_API_URL" \notin app.env \/ "FREQTRADE_API_PASSWORD" \notin app.env
       THEN app' = [app EXCEPT !.pc = "exited", !.exit_code = 1]
       ELSE app' = [app EXCEPT !.pc = "create"]
    /\ UNCHANGED <<clock, fs, strategy, since, state, flow, out>>

\* lines 52-91: Bot, Dispatcher, APIClient, and the two handlers
main_create ==
    /\ app.pc = "create"
    /\ app' = [app EXCEPT !.pc = "ready", !.bot = TRUE, !.dp = TRUE, !.client = TRUE]
    /\ UNCHANGED <<clock, fs, strategy, since, state, flow, out>>

\* lines 93-95: dp.start_polling(bot)
main_start_polling ==
    /\ app.pc = "ready"
    /\ app' = [app EXCEPT !.pc = "polling"]
    /\ UNCHANGED <<clock, fs, strategy, since, state, flow, out>>

\* a mutant of Middlewares: main() registers AdminMiddleware
Middlewares_with_admin == {"AdminMiddleware"}

\* the middlewares main() registers on the dispatcher: none
Middlewares == {}

\* AdminMiddleware.__call__ lines 25-33: whether the handler is called
AdminMiddleware(admin_id, sender) == sender # NoSender /\ sender = admin_id

\* whether an event of this sender reaches the handlers of the dispatcher
Passes(sender) == "AdminMiddleware" \in Middlewares => AdminMiddleware(AdminId, sender)

\* the commands sent to the bot
Commands == {"/start", "/status", "/menu", "/reload"}

\* main()'s cmd_start (lines 56-62)
main_cmd_start(sender) ==
    /\ app.pc = "polling"
    /\ Passes(sender)
    /\ app' = [app EXCEPT !.sender = sender, !.ran = "cmd_start"]
    /\ out' = "greeting"
    /\ UNCHANGED <<clock, fs, strategy, since, state, flow>>

\* main()'s cmd_status (lines 64-91): client.get_status() and the reply
main_cmd_status(sender) ==
    /\ app.pc = "polling"
    /\ Passes(sender)
    /\ app' = [app EXCEPT !.sender = sender, !.ran = "cmd_status"]
    /\ out' \in StatusKinds
    /\ UNCHANGED <<clock, fs, strategy, since, state, flow>>

\* an event that no handler takes: a middleware returned None, or the
\* dispatcher has no handler for the command
unhandled(sender, command) ==
    /\ app.pc = "polling"
    /\ ~Passes(sender) \/ command \in {"/menu", "/reload"}
    /\ app' = [app EXCEPT !.sender = sender, !.ran = "none"]
    /\ UNCHANGED <<clock, fs, strategy, since, state, flow, out>>

----------------------------------------------------------------------------
(* Specifications *)

Init ==
    /\ clock = 1
    /\ fs \in {[p \in Paths |-> IF p = PARAMS_FILE THEN f ELSE NoFile] :
                 f \in {NoFile} \cup {File(c, 1) : c \in ExternalContents}}
    /\ strategy = InitStrategy
    /\ since = "written"
    /\ state = NoState
    /\ flow = [f \in Tasks |-> IdleFlow]
    /\ out = "none"
    /\ app = PollingApp

\* the steps of the message handlers and of reload_config in task f, the
\* administrator's text drawn from T
EditSteps(f, T) ==
    \/ \E h \in UpdateHandlers, text \in T : process_input(f, h, text)
    \/ update_load(f)
    \/ save_open(f)
    \/ save_dump(f)
    \/ save_replace(f)
    \/ save_except(f)
    \/ reload_post(f)
    \/ reload_sleep(f)
    \/ answer(f)
    \/ update_clear(f)

\* the texts sent in Spec: a valid RSI level, and a valid stoploss that is no
\* valid RSI level
StoreTexts == {<<"4", "0">>, <<"0">>}

\* The parameter store: the shared file, whatever else writes it, the
\* consumer's loop and the editor's edits.
Next ==
    \/ Tick
    \/ ExternalWrite
    \/ Remove
    \/ bot_loop_start
    \/ start_set_rsi
    \/ start_set_stoploss
    \/ \E f \in Tasks : EditSteps(f, StoreTexts)

Spec == Init /\ [][Next]_vars

\* The editor: every handler of the router, on the file as found at start.
NextBot ==
    \/ cmd_start
    \/ cb_main_menu
    \/ cb_status
    \/ cb_start
    \/ cb_stop
    \/ cb_settings
    \/ start_set_rsi
    \/ start_set_stoploss
    \/ \E f \in Tasks : cmd_reload(f)
    \/ \E f \in Tasks : EditSteps(f, Texts)

SpecBot == Init /\ [][NextBot]_vars

----------------------------------------------------------------------------
(* The claims *)

SavePcs == {"open", "dump", "replace", "except"}

\* what a reader that opens PARAMS_FILE now gets
ReadView == fs[PARAMS_FILE]

\* a step of save_params in task f
SaveStep(f) == flow[f].pc \in SavePcs /\ flow'[f] # flow[f]

\* C1: save_params is atomic for readers: whatever a reader (the consumer's
\* _load_dynamic_params, the editor's load_params) opens at PARAMS_FILE is
\* never a partially written text, at any point of a save, including a save
\* whose write step fails; and a step of save_params either leaves the
\* target as it was or puts the complete new content there.
C1_SaveAtomic ==
    /\ [](ReadView.data.kind # "partial")
    /\ [][\A f \in Tasks :
            SaveStep(f) =>
                \/ ReadView' = ReadView
                \/ ReadView'.exists /\ ReadView'.data = Obj(flow[f].params)]_vars

\* C1 witness: a save was interrupted in its write step (the temporary file
\* holds a partial text) while the target holds a complete object
C1_Witness ==
    /\ \E f \in Tasks : flow[f].pc = "except"
    /\ fs[temp_file].exists /\ fs[temp_file].data.kind = "partial"
    /\ ReadView.exists /\ ReadView.data.kind = "object"

\* the consumer's ParameterSet: params and the four attributes
ParameterSet(s) ==
    <<s.params, s.stoploss, s.trailing_stop, s.trailing_stop_positive,
      s.trailing_stop_positive_offset>>

\* a present file that fails JSON parsing, is no JSON object, or has a field
\* outside its domain
BadFile(f) ==
    /\ f.exists
    /\ \/ f.data.kind # "object"
       \/ \E k \in (DOMAIN f.data.obj) \cap Keys : ~FieldOk(k, f.data.obj[k])

InvalidText(h, text) ==
    IF h = "process_rsi_input"
    THEN ~int(text).ok \/ int(text).v < 1 \/ int(text).v > 99
    ELSE ~float(text).ok \/ float(text).v < -100 \/ float(text).v > 0

Awaiting == {waiting_for_rsi, waiting_for_stoploss}

Persisted(fsys, h, val) ==
    /\ fsys[PARAMS_FILE].exists
    /\ fsys[PARAMS_FILE].data.kind = "object"
    /\ param_name(h) \in DOMAIN fsys[PARAMS_FILE].data.obj
    /\ fsys[PARAMS_FILE].data.obj[param_name(h)] = val

\* task f, running _update_param, returns in this step
UpdateEnds(f) ==
    flow[f].handler \in UpdateHandlers /\ flow[f].pc # "idle" /\ flow'[f].pc = "idle"

Is200(r) == r \in {"200_json", "200_malformed"}

\* C5: one reload_config call issues at most 3 POSTs, none after a success;
\* it sleeps between two attempts and not after the last; it returns true
\* if and only if an attempt received HTTP 200, and false exactly when all
\* three attempts failed.
C5_RetryProtocol ==
    \A f \in Tasks :
        /\ flow[f].i <= retries - 1
        /\ flow[f].pc = "sleep" => (~Is200(flow[f].response) /\ flow[f].i < retries - 1)
        /\ flow[f].pc = "answer" =>
              /\ flow[f].reload_ok <=> Is200(flow[f].response)
              /\ ~flow[f].reload_ok <=> (flow[f].i = retries - 1 /\ ~Is200(flow[f].response))

\* the reply of _update_param after reload_config is being sent
Replies(f) == flow[f].handler \in UpdateHandlers /\ flow[f].pc = "answer" /\ flow'[f].pc = "clear"

\* C6: a failed reload does not roll back the saved value: no step of
\* _update_param after the save touches the files, the reply is "saved but
\* not applied" when reload_config returned false and the confirmation only
\* when it returned true, and the file holds the saved value when the run
\* ends.
C6_FailedReloadKeepsValue ==
    [][\A f \in Tasks :
          flow[f].handler \in UpdateHandlers =>
              /\ (flow[f].pc \in {"post", "sleep", "answer", "clear"} /\ flow'[f] # flow[f]) =>
                    fs' = fs
              /\ Replies(f) =>
                    /\ ~flow[f].reload_ok => out' = "saved_not_applied"
                    /\ out' = "confirmed" => flow[f].reload_ok
              /\ (flow[f].pc = "clear" /\ UpdateEnds(f)) =>
                    Persisted(fs', flow[f].handler, flow[f].new_value)]_vars

\* C6 witness: the third attempt failed, "saved but not applied" was sent
\* and the file holds the new value
C6_Witness ==
    \E f \in Tasks :
        /\ flow[f].pc = "clear"
        /\ flow[f].handler = "process_stoploss_input"
        /\ ~flow[f].reload_ok /\ flow[f].i = retries - 1
        /\ out = "saved_not_applied"
        /\ Persisted(fs, flow[f].handler, flow[f].new_value)

\* C7: after a consumer iteration with no write to the file since, the next
\* iteration finds the file unchanged and does not open it, whatever the
\* file holds.
C7_QuiescentWithoutWrites ==
    since = "polled" => ~HasChanged(fs[PARAMS_FILE], strategy._last_params_mtime)

\* every field of the object is within the consumer's domains
ValidObject(f) ==
    /\ f.exists /\ f.data.kind = "object"
    /\ \A k \in (DOMAIN f.data.obj) \cap Keys : FieldOk(k, f.data.obj[k])

\* C8: the first consumer iteration after a successful save_params of a
\* valid ParameterSet detects the change and ends with the consumer's
\* params equal to the saved ParameterSet.
C8_SavePickedUpByNextPoll ==
    [][(since = "saved" /\ since' = "polled" /\ ValidObject(fs[PARAMS_FILE])) =>
          /\ HasChanged(fs[PARAMS_FILE], strategy._last_params_mtime)
          /\ strategy'.params = StrategyParams(fs[PARAMS_FILE].data.obj).val]_vars

\* C9 as stated: in AwaitingValue(field) the session state changes only at
\* the end of the processing of a submitted text value.
C9_OnlyTextLeavesAwaiting ==
    [][(state \in Awaiting /\ state' # state) =>
          \E f \in Tasks : flow[f].pc = "clear" /\ flow'[f].pc = "idle"]_vars

\* C9 as amended: in AwaitingValue(field) the status, start, stop and
\* settings buttons and the /start, /menu and /reload commands leave the
\* session state alone; the state changes only by the main-menu button (to
\* Idle), by an edit button (to AwaitingValue of that button's field) or at
\* the end of the processing of a submitted text value (to Idle).
C9_TransitionsOutOfAwaiting ==
    [][(state \in Awaiting) =>
          /\ (cmd_start \/ cb_status \/ cb_start \/ cb_stop \/ cb_settings
                \/ \E f \in Tasks : cmd_reload(f)) => state' = state
          /\ state' # state =>
                \/ (cb_main_menu /\ state' = NoState)
                \/ (start_set_rsi /\ state' = waiting_for_rsi)
                \/ (start_set_stoploss /\ state' = waiting_for_stoploss)
                \/ (\E f \in Tasks : update_clear(f) /\ state' = NoState)
      ]_vars

\* C9 witness: the status button was pressed in AwaitingValue(rsi_buy) and
\* the session still waits for the RSI value
C9_Witness ==
    /\ state = waiting_for_rsi
    /\ out = "status"

\* C10: the ParameterSet has all seven fields on both sides: the consumer's
\* params, and what the editor's load_params returns for the file as it is,
\* which for an absent file is exactly the seven defaults.
C10_AllFieldsPresent ==
    /\ DOMAIN strategy.params = Keys
    /\ load_params(fs[PARAMS_FILE]).kind = "object"
    /\ DOMAIN load_params(fs[PARAMS_FILE]).obj = Keys
    /\ ~fs[PARAMS_FILE].exists =>
          load_params(fs[PARAMS_FILE]).obj = [k \in Keys |-> FieldDefault(k)]

\* the file states C11 names: present and valid, absent, or unparseable
EditableFile(f) == ValidObject(f) \/ ~f.exists \/ f.data.kind = "garbage"

\* the consumer holds what the file says (a valid file that it has loaded);
\* for an absent or unparseable file it holds its last loaded values
HoldsFile(s, f) == ValidObject(f) => s.params = StrategyParams(f.data.obj).val

\* task f's save_params succeeds in this step, on the file that it loaded
EditSucceeds(f) ==
    /\ flow[f].handler \in UpdateHandlers
    /\ flow[f].pc = "replace" /\ flow'[f].pc = "post"
    /\ load_params(fs[PARAMS_FILE]).kind = "object"
    /\ flow[f].params =
          SetItem(load_params(fs[PARAMS_FILE]).obj, param_name(flow[f].handler), flow[f].new_value)

\* the fields of the consumer's params other than the one task f edits
OtherFields(f) == (DOMAIN strategy.params) \ {param_name(flow[f].handler)}

\* C11: a successful edit of one field, on a file that is valid, absent or
\* unparseable and whose values the consumer holds, leaves every other field
\* of the consumer's params, after the consumer's next iteration on the
\* saved file, equal to the value the consumer held before the edit.
C11_EditChangesOnlyEditedField ==
    [][\A f \in Tasks :
          (EditSucceeds(f) /\ EditableFile(fs[PARAMS_FILE]) /\ HoldsFile(strategy, fs[PARAMS_FILE])) =>
              \A k \in OtherFields(f) :
                  _load_dynamic_params(strategy, fs'[PARAMS_FILE]).params[k] = strategy.params[k]]_vars

\* C11 restricted to a present and valid file, where it holds
C11_ValidFileOnly ==
    [][\A f \in Tasks :
          (EditSucceeds(f) /\ ValidObject(fs[PARAMS_FILE]) /\ HoldsFile(strategy, fs[PARAMS_FILE])) =>
              \A k \in OtherFields(f) :
                  _load_dynamic_params(strategy, fs'[PARAMS_FILE]).params[k] = strategy.params[k]]_vars

----------------------------------------------------------------------------
(* The validators on candidate values *)

\* raw objects put before the consumer's StrategyParams: every boundary of
\* rsi_buy and stoploss, values of a neighbouring JSON type, a full object
CandidateObjects ==
    {[k \in {"rsi_buy"} |-> IntV(c)] : c \in {0, 1, 99, 100}}
    \cup {[k \in {"stoploss"} |-> FloatV(c)] : c \in {-101, -100, -99, -1, 0, 1}}
    \cup {[k \in {"rsi_buy"} |-> FloatV(4000)], [k \in {"stoploss"} |-> IntV(-1)],
          [k \in {"trailing_stop"} |-> IntV(1)], [k \in {"trailing_stop_positive"} |-> IntV(0)],
          FullContent.obj}

\* texts put before the editor's validators: the boundaries of both fields
CandidateTexts ==
    {<<"0">>, <<"1">>, <<"9", "9">>, <<"1", "0", "0">>, <<"-", "1">>,
     <<"-", "0", ".", "9", "9">>, <<"-", "1", ".", "0", "1">>, <<"0", ".", "0", "1">>}

InitValidate ==
    /\ clock = 1
    /\ fs \in {[p \in Paths |-> IF p = PARAMS_FILE THEN File(Obj(o), 1) ELSE NoFile] :
                 o \in CandidateObjects}
    /\ strategy = InitStrategy
    /\ since = "written"
    /\ state = NoState
    /\ flow = [f \in Tasks |-> IdleFlow]
    /\ out = "none"
    /\ app = PollingApp

\* The validators: the consumer's loop on candidate objects, the editor's
\* edits with candidate texts.
NextValidate ==
    \/ bot_loop_start
    \/ start_set_rsi
    \/ start_set_stoploss
    \/ \E f \in Tasks : EditSteps(f, CandidateTexts)

SpecValidate == InitValidate /\ [][NextValidate]_vars

\* a JSON number in hundredths
Hundredths(val) == IF val.t = "int" THEN 100 * val.v ELSE val.v

\* the documented domains (in hundredths): rsi_buy an integer in [1, 99],
\* stoploss in (-1.0, 0.0]
Documented(k, h) ==
    CASE k = "rsi_buy" -> h % 100 = 0 /\ 100 <= h /\ h <= 9900
      [] k = "stoploss" -> -100 < h /\ h <= 0
      [] OTHER -> TRUE

\* C12: each validator accepts exactly the documented domains: the editor's
\* validator lets a text through if and only if it denotes an integer in
\* [1, 99] for rsi_buy, a number in (-1.0, 0.0] for stoploss; the consumer
\* applies a changed file if and only if its rsi_buy and stoploss are in
\* these domains.
C12_DocumentedDomains ==
    [][/\ \A f \in Tasks, h \in UpdateHandlers, text \in CandidateTexts :
            process_input(f, h, text) =>
                (flow'[f].pc = "load" <=>
                    (float(text).ok /\ Documented(param_name(h), float(text).v)))
       /\ (bot_loop_start /\ HasChanged(fs[PARAMS_FILE], strategy._last_params_mtime)
              /\ fs[PARAMS_FILE].data.kind = "object") =>
            (strategy'._last_params_mtime = fs[PARAMS_FILE].mtime <=>
                \A k \in DOMAIN fs[PARAMS_FILE].data.obj :
                    Documented(k, Hundredths(fs[PARAMS_FILE].data.obj[k])))]_vars

\* C12 with the domains of the code: both validators take rsi_buy in
\* [1, 99]; the editor takes stoploss in [-1.0, 0.0], the consumer in
\* [-1.0, 0.0)
C12_CodeDomains ==
    [][/\ \A f \in Tasks, h \in UpdateHandlers, text \in CandidateTexts :
            process_input(f, h, text) =>
                (flow'[f].pc = "load" <=>
                    /\ float(text).ok
                    /\ IF h = "process_rsi_input"
                       THEN Documented("rsi_buy", float(text).v)
                       ELSE -100 <= float(text).v /\ float(text).v <= 0)
       /\ (bot_loop_start /\ HasChanged(fs[PARAMS_FILE], strategy._last_params_mtime)
              /\ fs[PARAMS_FILE].data.kind = "object") =>
            (strategy'._last_params_mtime = fs[PARAMS_FILE].mtime <=>
                \A k \in DOMAIN fs[PARAMS_FILE].data.obj :
                    IF k = "stoploss"
                    THEN -100 <= Hundredths(fs[PARAMS_FILE].data.obj[k])
                            /\ Hundredths(fs[PARAMS_FILE].data.obj[k]) < 0
                    ELSE Documented(k, Hundredths(fs[PARAMS_FILE].data.obj[k])))]_vars

----------------------------------------------------------------------------
(* The status renderer *)

\* The status button: the four queries of _get_status_text, each with every
\* outcome, completing in every order.
NextStatus ==
    \/ \E f \in Tasks : status_gather(f)
    \/ \E f \in Tasks, n \in 1..Len(Endpoints) : get_issue(f, n)
    \/ \E f \in Tasks, e \in EndpointSet, outcome \in GetOutcomes :
          \E body \in Bodies(e) : get_response(f, e, outcome, body)
    \/ \E f \in Tasks : status_format(f)

\* the editor with no text shown yet
InitStatus ==
    /\ clock = 1
    /\ fs = [p \in Paths |-> NoFile]
    /\ strategy = InitStrategy
    /\ since = "written"
    /\ state = NoState
    /\ flow = [f \in Tasks |-> IdleFlow]
    /\ out = Text("none", "-", "-", "-", "-")
    /\ app = PollingApp

SpecStatus == InitStatus /\ [][NextStatus]_vars

\* C13: a status GET never raises out of _get_request and yields None for
\* every outcome other than a well-formed 200; and when the show_config
\* query is unavailable the renderer returns the connection-failure text.
C13_RestFailuresAreSoft ==
    [][\A f \in Tasks :
          /\ \A e \in EndpointSet, outcome \in GetOutcomes : \A body \in Bodies(e) :
                get_response(f, e, outcome, body) =>
                    /\ flow'[f].results[e] # "raised"
                    /\ outcome # "200_json" => flow'[f].results[e] = None
          /\ (status_format(f) /\ flow[f].results["show_config"] = None) =>
                out' = Text("connection_error", "-", "-", "-", "-")]_vars

\* C13 witness: show_config was unavailable, the other three queries
\* answered, and the connection-failure text was shown
C13_Witness ==
    /\ out = Text("connection_error", "-", "-", "-", "-")
    /\ \A f \in Tasks : flow[f] = IdleFlow

\* C14: no query completes before all four are issued; the text is made
\* only when all four have completed; and the text is the one that the four
\* results give, endpoint by endpoint, whatever the order of completion.
C14_JoinedBeforeFormatting ==
    /\ [](\A f \in Tasks :
            (\E e \in EndpointSet : Done(flow[f].results[e])) =>
                \A d \in EndpointSet : flow[f].results[d] \notin {"none", "scheduled"})
    /\ [][\A f \in Tasks :
            (flow[f].pc = "gather" /\ flow'[f].pc = "idle") =>
                /\ \A e \in EndpointSet : Done(flow[f].results[e])
                /\ out' = _get_status_text(flow[f].results["show_config"], flow[f].results["balance"],
                                           flow[f].results["daily"], flow[f].results["status"])]_vars

\* C14 witness: the queries completed in the reverse of the order of issue
\* and the full status text is about to be made
C14_Witness ==
    \E f \in Tasks :
        /\ flow[f].order = <<"status", "daily", "balance", "show_config">>
        /\ flow[f].results = [e \in EndpointSet |->
              CASE e = "show_config" -> "config_running" [] e = "balance" -> "balance"
                [] e = "daily" -> "daily" [] e = "status" -> "trades_list"]

----------------------------------------------------------------------------
(* The process *)

InitMain ==
    /\ clock = 1
    /\ fs = [p \in Paths |-> NoFile]
    /\ strategy = InitStrategy
    /\ since = "written"
    /\ state = NoState
    /\ flow = [f \in Tasks |-> IdleFlow]
    /\ out = "none"
    /\ app \in {StartApp(env) : env \in SUBSET EnvNames}

\* main() in every environment, and the events of the bot it starts
NextMain ==
    \/ main_getenv
    \/ main_create
    \/ main_start_polling
    \/ \E sender \in Senders : main_cmd_start(sender)
    \/ \E sender \in Senders : main_cmd_status(sender)
    \/ \E sender \in Senders, command \in Commands : unhandled(sender, command)

SpecMain == InitMain /\ [][NextMain]_vars

\* the values the documentation calls required
DocumentedRequired ==
    {"TELEGRAM_BOT_TOKEN", "ADMIN_ID", "FREQTRADE_API_URL", "FREQTRADE_API_PASSWORD"}

\* C15: the bot, the API client and the polling loop exist only when every
\* required environment value is present, and a process that main() exited
\* has a non-zero status and none of the three.
C15_MissingConfigIsFatal ==
    /\ (app.bot \/ app.dp \/ app.client \/ app.pc = "polling") => DocumentedRequired \subseteq app.env
    /\ app.pc = "exited" => (app.exit_code # 0 /\ ~app.bot /\ ~app.dp /\ ~app.client)

\* C15 with the values the code requires: the token, the URL, the password
C15_CodeRequired ==
    /\ (app.bot \/ app.dp \/ app.client \/ app.pc = "polling") =>
          {"TELEGRAM_BOT_TOKEN", "FREQTRADE_API_URL", "FREQTRADE_API_PASSWORD"} \subseteq app.env
    /\ app.pc = "exited" => (app.exit_code # 0 /\ ~app.bot /\ ~app.dp /\ ~app.client)

\* the handlers of main() that query status (it has none that reads or
\* edits parameters or starts, stops or reloads the engine)
ProtectedHandlers == {"cmd_status"}

\* C18: in the bot that main() starts, no handler that queries status has
\* run for an event whose sender is not the administrator (or that has no
\* sender), and such an event changes no reply.
C18_OnlyAdminActs ==
    /\ [](app.sender \notin {"none", AdminId} => app.ran \notin ProtectedHandlers)
    /\ [][(app'.sender \notin {"none", AdminId} /\ app'.ran \in ProtectedHandlers /\ app' # app) =>
            out' = out]_vars

----------------------------------------------------------------------------
(* Serialization of a ParameterSet *)

DigitChar(d) == CHOOSE c \in Digits : DigitVal(c) = d

RECURSIVE FormatNat(_)
FormatNat(n) == IF n < 10 THEN <<DigitChar(n)>> ELSE FormatNat(n \div 10) \o <<DigitChar(n % 10)>>

Abs(n) == IF n < 0 THEN -n ELSE n
Minus(n) == IF n < 0 THEN <<"-">> ELSE <<>>

\* a mutant of FormatFraction: the leading zero of the hundredths is lost
FormatFraction_nopad(c) ==
    IF c % 10 = 0 THEN <<DigitChar(c \div 10)>>
    ELSE IF c < 10 THEN <<DigitChar(c)>>
    ELSE <<DigitChar(c \div 10), DigitChar(c % 10)>>

\* the digits after the point in the repr of a float with c hundredths
FormatFraction(c) ==
    IF c % 10 = 0 THEN <<DigitChar(c \div 10)>> ELSE <<DigitChar(c \div 10), DigitChar(c % 10)>>

\* json.dump of one value of validated.dict(): an int, a float (always with
\* a point), a bool
Encode(val) ==
    CASE val.t = "int" -> Minus(val.v) \o FormatNat(Abs(val.v))
      [] val.t = "float" ->
            Minus(val.v) \o FormatNat(Abs(val.v) \div 100) \o <<".">> \o FormatFraction(Abs(val.v) % 100)
      [] val.t = "bool" -> IF val.v = 1 THEN <<"t", "r", "u", "e">> ELSE <<"f", "a", "l", "s", "e">>

\* json.load of one value: true, false, a number with a point (a float) or
\* without (an int)
Decode(text) ==
    IF text = <<"t", "r", "u", "e">> THEN BoolV(TRUE)
    ELSE IF text = <<"f", "a", "l", "s", "e">> THEN BoolV(FALSE)
    ELSE IF DotAt(text) # 0 THEN FloatV(float(text).v)
    ELSE IntV(int(text).v)

dumps(obj) == [k \in DOMAIN obj |-> Encode(obj[k])]
loads(texts) == [k \in DOMAIN texts |-> Decode(texts[k])]

\* validating, serializing and validating again gives the same ParameterSet,
\* and validating a validated ParameterSet changes nothing
RoundTrip(raw) ==
    LET first == StrategyParams(raw).val
        again == StrategyParams(loads(dumps(first)))
    IN  /\ again.ok /\ again.val = first
        /\ StrategyParams(first).ok /\ StrategyParams(first).val = first

Persists(f) ==
    flow[f].handler \in UpdateHandlers /\ flow[f].pc = "replace" /\ flow'[f].pc = "post"

\* the consumer's iteration on the saved file would read it, and no other
\* field of the file is outside its domain
ReadableAfter(f) ==
    /\ HasChanged(fs'[PARAMS_FILE], strategy._last_params_mtime)
    /\ \A k \in ((DOMAIN fs'[PARAMS_FILE].data.obj) \cap Keys) \ {param_name(flow[f].handler)} :
          FieldOk(k, fs'[PARAMS_FILE].data.obj[k])

\* C19: every value the editor accepts and persists is accepted by the
\* consumer's StrategyParams, and a consumer iteration that reads the saved
\* file ends with the edited field equal to the value the user set.
C19_EditorConsumerAgree ==
    [][\A f \in Tasks :
          Persists(f) =>
              /\ FieldOk(param_name(flow[f].handler), flow[f].new_value)
              /\ ReadableAfter(f) =>
                    _load_dynamic_params(strategy, fs'[PARAMS_FILE]).params[param_name(flow[f].handler)]
                        = flow[f].new_value]_vars

\* C19 for every persisted value but stoploss 0.0, where it holds
C19_ExceptZeroStoploss ==
    [][\A f \in Tasks :
          (Persists(f) /\ flow[f].new_value # FloatV(0)) =>
              /\ FieldOk(param_name(flow[f].handler), flow[f].new_value)
              /\ ReadableAfter(f) =>
                    _load_dynamic_params(strategy, fs'[PARAMS_FILE]).params[param_name(flow[f].handler)]
                        = flow[f].new_value]_vars

\* line 74: an iteration that finds no file would log the warning
WouldWarn(s) == s._last_params_mtime # -1

\* C20: an iteration that finds the file missing keeps the consumer's
\* ParameterSet and leaves the consumer so that a further such iteration
\* logs no warning; and the first iteration that finds the file again after
\* one that found it missing reads it and applies it, whatever its
\* modification time.
C20_RemovedAndRestored ==
    [][/\ (bot_loop_start /\ ~fs[PARAMS_FILE].exists) =>
            (ParameterSet(strategy') = ParameterSet(strategy) /\ ~WouldWarn(strategy'))
       /\ (bot_loop_start /\ ~WouldWarn(strategy) /\ ValidObject(fs[PARAMS_FILE])) =>
            /\ strategy'.params = StrategyParams(fs[PARAMS_FILE].data.obj).val
            /\ strategy'._last_params_mtime = fs[PARAMS_FILE].mtime]_vars

\* C20 witness: the consumer had loaded a file in tick 1, then found it
\* missing; the file is there again with the modification time of tick 1
C20_Witness ==
    /\ clock = 1
    /\ DOMAIN strategy.params = Keys
    /\ ~WouldWarn(strategy)
    /\ ValidObject(fs[PARAMS_FILE]) /\ fs[PARAMS_FILE].mtime = 1

----------------------------------------------------------------------------
(* Overlapping edits *)

\* two handler tasks of the event loop, their load_params and save_params
\* in threads of the pool
OverlapTasks == {"t1", "t2"}

InitOverlap ==
    /\ clock = 1
    /\ fs \in {[p \in Paths |-> IF p = PARAMS_FILE THEN f ELSE NoFile] :
                 f \in {NoFile, File(FullContent, 1)}}
    /\ strategy = InitStrategy
    /\ since = "written"
    /\ state = NoState
    /\ flow = [f \in OverlapTasks |-> IdleFlow]
    /\ out = "none"
    /\ app = PollingApp

\* Two edit flows at a time: the edit buttons and the steps of
\* _update_param in either task.
NextOverlap ==
    \/ start_set_rsi
    \/ start_set_stoploss
    \/ \E f \in OverlapTasks : EditSteps(f, StoreTexts)

SpecOverlap == InitOverlap /\ [][NextOverlap]_vars

\* save_params has returned True in task f, which has not ended yet
Saved(f) == flow[f].handler \in UpdateHandlers /\ flow[f].pc \in {"post", "sleep", "answer", "clear"}

\* C21: whatever the interleaving of two edit flows, the file a flow wrote
\* is there for its rename (so its save_params does not fail because of the
\* other flow), the file at PARAMS_FILE is a complete JSON object, and when
\* both flows have saved different fields the file holds both new values.
C21_OverlappingEditsKept ==
    /\ \A f \in OverlapTasks : flow[f].pc = "replace" => fs[temp_file].exists
    /\ fs[PARAMS_FILE].exists => fs[PARAMS_FILE].data.kind = "object"
    /\ \A f, g \in OverlapTasks :
          (Saved(f) /\ Saved(g) /\ flow[f].handler # flow[g].handler) =>
              Persisted(fs, flow[f].handler, flow[f].new_value)

====
